---- MODULE Spec2Model ----
(***************************************************************************)
(* Model of the ash runner (src/src/ash_runner.rs): the hot-reload         *)
(* protocol between the event-loop thread and the compile thread, the     *)
(* lifecycle of the GPU objects owned by RenderCtx, and the per-frame      *)
(* fence / command-buffer protocol.                                        *)
(*                                                                         *)
(* Every Vulkan call the event-loop thread makes that another agent can    *)
(* observe (the GPU queue, the compile thread, the window system) is one   *)
(* step of the thread; `rpc` is its position.  The compile thread takes    *)
(* one step per access to the statics it shares with the event loop.       *)
(***************************************************************************)
EXTENDS Integers, Sequences, FiniteSets, TLC

\* ------------------------------------------------------------------ bounds
\* compile threads spawned in one run
MaxSpawns == 2
\* changes of the window size by the window system in one run
MaxResizes == 2
\* compile threads spawned plus changes of the window size in one run
MaxInputs == 2
\* lines of cargo's stdout that a build prints
MaxLines == 2
\* calls made on a RenderCtx that is driven call by call
MaxCalls == 3
\* (vertex, fragment) pairs of a shader set passed to build_pipelines
MaxPairs == 2
\* operations on the queue when render is called on a RenderCtx that is
\* driven call by call
MaxQueue == 2

\* ------------------------------------------------------- program constants
\* std::u32::MAX, the bit pattern 0xFFFFFFFF, as the 32-bit integer TLC holds
U32_MAX == -1
PUSH_WIDTH == 1920
PUSH_HEIGHT == 720
INIT_WIDTH == 1280
INIT_HEIGHT == 720

\* ---------------------------------------------------------------- helpers
Range(s) == {s[i] : i \in 1..Len(s)}

SeqsUpTo(S, n) == UNION {[1..k -> S] : k \in 0..n}

Last(s) == s[Len(s)]

\* ------------------------------------------------- the external build (env)
\* A file name printed by cargo: the directory it lies in and its base name,
\* the latter as the pieces between its dots ("a.b.spv" is <<"a", "b", "spv">>,
\* ".spv" is <<"", "spv">>).
FileName(dir, parts) == [dir |-> dir, parts |-> parts]

\* the base name as a string again
RECURSIVE Join(_)
Join(parts) ==
    IF Len(parts) = 1 THEN parts[1] ELSE parts[1] \o "." \o Join(Tail(parts))

NoFilenames == [some |-> FALSE, list |-> <<>>]

SomeFilenames(l) == [some |-> TRUE, list |-> l]

\* One line of stdout: either not a SpirvArtifacts JSON record, or one.
GarbageLine == [parsed |-> FALSE, reason |-> "", filenames |-> NoFilenames]

JsonLine(reason, filenames) == [parsed |-> TRUE, reason |-> reason, filenames |-> filenames]

FileLists ==
    { <<>>,
      <<FileName("target/spirv", <<"sky_shader", "spv">>)>>,
      <<FileName("target/deps", <<"libcore", "rlib">>),
        FileName("target/deps", <<"sky_shader", "spv", "json">>),
        FileName("target/spirv", <<"aux_shader", "spv">>)>> }

Lines ==
    {GarbageLine, JsonLine("build-finished", NoFilenames),
     JsonLine("compiler-artifact", NoFilenames)}
    \cup {JsonLine("compiler-artifact", SomeFilenames(l)) : l \in FileLists}

\* What the n-th run of cargo leaves behind: exit status, stdout, and the
\* content of the .spv files it wrote (the number of the build stands for
\* the words: every build writes its own)
BuildOutputs(n) ==
    [status : {0, 101}, stdout : SeqsUpTo(Lines, MaxLines), version : {n}]

\* ------------------------------------------------------- compile_shaders
SpirvShader(name, spirv) == [name |-> name, spirv |-> spirv]

Panicked == [ok |-> FALSE, shaders |-> <<>>]

Returned(v) == [ok |-> TRUE, shaders |-> v]

\* line 162: the string ends with ".spv", so a dot precedes a last piece "spv"
ends_with_spv(filename) ==
    Len(filename.parts) >= 2 /\ Last(filename.parts) = "spv"

\* line 168, Path::file_stem: the base name up to its last dot; all of it
\* when it has no dot, or only a leading one
file_stem(path) ==
    IF Len(path.parts) = 1 \/ (Len(path.parts) = 2 /\ path.parts[1] = "")
    THEN Join(path.parts)
    ELSE Join(SubSeq(path.parts, 1, Len(path.parts) - 1))

\* lines 149-157: the records that parse, of reason "compiler-artifact"
artifact_lines(out) ==
    SelectSeq(out.stdout, LAMBDA l : l.parsed /\ l.reason = "compiler-artifact")

\* lines 166-176: one SpirvShader per path, in order
load_artifacts(paths, version) ==
    [i \in 1..Len(paths) |-> SpirvShader(file_stem(paths[i]), version)]

\* variant of compile_shaders that takes the first artifact record
compile_shaders_first_artifact(out) ==
    LET arts == artifact_lines(out) IN
    IF arts = <<>> THEN Panicked
    ELSE IF ~Head(arts).filenames.some THEN Panicked
    ELSE Returned(load_artifacts(SelectSeq(Head(arts).filenames.list, ends_with_spv),
                                 out.version))

\* The exit status of cargo is not looked at (lines 134-146 keep only stdout).
compile_shaders(out) ==
    LET arts == artifact_lines(out) IN
    IF arts = <<>> THEN Panicked                      \* .expect("No output artifacts")
    ELSE IF ~Last(arts).filenames.some THEN Panicked   \* .expect("No artifact filenemaes")
    ELSE Returned(load_artifacts(SelectSeq(Last(arts).filenames.list, ends_with_spv),
                                 out.version))

\* every value compile_shaders can return for the n-th build
CompileResults(n) == {compile_shaders(out) : out \in BuildOutputs(n)}

\* the same, each with an exit status cargo can have ended with
CompileOutcomes(n) ==
    {[result |-> compile_shaders(out), status |-> out.status] : out \in BuildOutputs(n)}

\* ------------------------------------------------------------------ state
VARIABLES
    \* the statics shared by the two threads (lines 44-46)
    IS_COMPILING, NEEDS_REBUILD, NEW_SHADERS,
    \* the compile threads spawned so far: position and the value returned
    \* by compile_shaders (line 104, before it is moved into NEW_SHADERS)
    threads,
    \* the event-loop thread: position, the event being handled, winit's
    \* control flow, the local of main (line 50) and the locals of render / draw
    rpc, event, control_flow, shaders, frame,
    \* RenderCtx (lines 676-692)
    ctx,
    \* the device: every object ever created, by handle; the fences and
    \* semaphores currently signaled; the operations queued on present_queue;
    \* the draw command buffer's recording state
    objects, signaled, queue, draw_cb,
    \* the window system: the window, the Resized events not yet delivered,
    \* and how often the window changed size
    window, resize_events, resizes

hotVars == <<IS_COMPILING, NEEDS_REBUILD, NEW_SHADERS>>

threadVars == <<threads>>

loopVars == <<rpc, event, control_flow, shaders, frame>>

gpuVars == <<objects, signaled, queue, draw_cb>>

envVars == <<window, resize_events, resizes>>

vars == <<IS_COMPILING, NEEDS_REBUILD, NEW_SHADERS, threads, rpc, event,
          control_flow, shaders, frame, ctx, objects, signaled, queue,
          draw_cb, window, resize_events, resizes>>

\* ------------------------------------------------------------ the surface
Extent2D(w, h) == [width |-> w, height |-> h]

Extents == {Extent2D(INIT_WIDTH, INIT_HEIGHT), Extent2D(800, 600)}

\* (min_image_count, max_image_count) pairs a surface may report
SurfaceCaps == {[min_image_count |-> 1, max_image_count |-> 1]}

\* vkGetPhysicalDeviceSurfaceCapabilitiesKHR.currentExtent: the window's
\* size, or (0xFFFFFFFF, 0xFFFFFFFF) where the surface size is set by the
\* swapchain
current_extent(w) ==
    IF w.defined THEN w.inner ELSE Extent2D(U32_MAX, U32_MAX)

\* variant of surface_resolution without the u32::MAX case: the extent the
\* driver reports is used as it is
surface_resolution_raw(w) == current_extent(w)

surface_resolution(w) ==
    IF current_extent(w).width = U32_MAX
    THEN Extent2D(w.inner.width, w.inner.height)
    ELSE current_extent(w)

\* variant of the image count without the clamp
desired_image_count_unclamped(caps) == caps.min_image_count + 1

desired_image_count(caps) ==
    LET desired == caps.min_image_count + 1 IN
    IF caps.max_image_count > 0 /\ desired > caps.max_image_count
    THEN caps.max_image_count
    ELSE desired

\* ------------------------------------------------------------- the device
\* A handle names an object of the device: its kind and the number of the
\* create call of that kind that returned it.  `objects[kind][id]` says
\* whether the object is live (created and not destroyed) and, for a shader
\* module, the code it was created from.
Kinds == {"fence", "semaphore", "swapchain", "image_view", "render_pass", "framebuffer",
          "command_pool", "command_buffer", "shader_module", "pipeline_layout",
          "pipeline"}

Handle(kind, id) == [kind |-> kind, id |-> id]

\* vk::Handle::null()
NullHandle == Handle("null", 0)

Object(code) == [live |-> TRUE, code |-> code]

NoObjects == [k \in Kinds |-> <<>>]

\* the device after creating n objects of a kind, and their handles
Alloc(objs, kind, n) == [objs EXCEPT ![kind] = @ \o [i \in 1..n |-> Object(0)]]

Fresh(objs, kind, n) == [i \in 1..n |-> Handle(kind, Len(objs[kind]) + i)]

\* the device after the destroy calls for the handles hs
Destroy(objs, hs) ==
    [k \in Kinds |->
        [i \in 1..Len(objs[k]) |->
            IF Handle(k, i) \in hs THEN [objs[k][i] EXCEPT !.live = FALSE] ELSE objs[k][i]]]

Created(h) == h.kind \in Kinds /\ h.id \in 1..Len(objects[h.kind])

IsLive(h) == Created(h) /\ objects[h.kind][h.id].live

LiveOfKind(kind) ==
    {Handle(kind, i) : i \in {j \in 1..Len(objects[kind]) : objects[kind][j].live}}

\* --------------------------------------------------------------- RenderCtx
VertexShaderEntryPoint(module, entry_point) == [module |-> module, entry_point |-> entry_point]

FragmentShaderEntryPoint(module, entry_point) == [module |-> module, entry_point |-> entry_point]

\* the shader set main passes to build_pipelines (lines 70-79)
MainShaderSet ==
    << <<VertexShaderEntryPoint("sky_shader", "main_vs"),
         FragmentShaderEntryPoint("sky_shader", "main_fs")>> >>

NullSync == [present_complete_semaphore |-> NullHandle,
             rendering_complete_semaphore |-> NullHandle,
             draw_commands_reuse_fence |-> NullHandle,
             setup_commands_reuse_fence |-> NullHandle]

NullCommands == [pool |-> NullHandle, draw_command_buffer |-> NullHandle,
                 setup_command_buffer |-> NullHandle]

\* the value of `ctx` before RenderCtx::from_base has run
NoCtx ==
    [sync |-> NullSync, swapchain |-> NullHandle, image_extent |-> Extent2D(0, 0),
     image_views |-> <<>>, render_pass |-> NullHandle, framebuffers |-> <<>>,
     framebuffer_extent |-> Extent2D(0, 0), commands |-> NullCommands,
     viewports |-> Extent2D(0, 0), scissors |-> Extent2D(0, 0),
     pipelines |-> <<>>, shader_modules |-> <<>>, shader_set |-> <<>>]

\* RenderBase::create_swapchain .. create_framebuffers and RenderCommandPool,
\* as from_base calls them in order (lines 696-702); the viewport and scissor
\* are computed once, here (lines 703-719)
from_base(objs, w) ==
    LET n  == desired_image_count(w.caps)
        o1 == Alloc(objs, "fence", 2)
        o2 == Alloc(o1, "semaphore", 2)
        o3 == Alloc(o2, "swapchain", 1)
        o4 == Alloc(o3, "image_view", n)
        o5 == Alloc(o4, "render_pass", 1)
        o6 == Alloc(o5, "framebuffer", n)
        o7 == Alloc(o6, "command_pool", 1)
        o8 == Alloc(o7, "command_buffer", 2)
    IN  [objects |-> o8,
         ctx |-> [NoCtx EXCEPT
                    !.sync = [draw_commands_reuse_fence |-> Fresh(objs, "fence", 2)[1],
                              setup_commands_reuse_fence |-> Fresh(objs, "fence", 2)[2],
                              present_complete_semaphore |-> Fresh(objs, "semaphore", 2)[1],
                              rendering_complete_semaphore |->
                                  Fresh(objs, "semaphore", 2)[2]],
                    !.swapchain = Fresh(objs, "swapchain", 1)[1],
                    !.image_extent = surface_resolution(w),
                    !.image_views = Fresh(objs, "image_view", n),
                    !.render_pass = Fresh(objs, "render_pass", 1)[1],
                    !.framebuffers = Fresh(objs, "framebuffer", n),
                    !.framebuffer_extent = surface_resolution(w),
                    !.commands = [pool |-> Fresh(objs, "command_pool", 1)[1],
                                  setup_command_buffer |->
                                      Fresh(objs, "command_buffer", 2)[1],
                                  draw_command_buffer |->
                                      Fresh(objs, "command_buffer", 2)[2]],
                    !.viewports = surface_resolution(w),
                    !.scissors = surface_resolution(w)]]

\* HashMap::insert: the map with `name` bound to `h`
MapInsert(m, name, h) ==
    [k \in DOMAIN m \cup {name} |-> IF k = name THEN h ELSE m[k]]

\* variant of insert_shader_module that destroys the module registered under
\* the name but leaves the name bound to it
insert_shader_module_keeps_old(m, objs, name, spirv) ==
    LET h  == Fresh(objs, "shader_module", 1)[1]
        o1 == [objs EXCEPT !["shader_module"] = Append(@, Object(spirv))]
    IN  [shader_modules |-> IF name \in DOMAIN m THEN m ELSE MapInsert(m, name, h),
         objects |-> IF name \in DOMAIN m THEN Destroy(o1, {m[name]}) ELSE o1]

\* variant of insert_shader_module that drops the module it replaces without
\* destroying it
insert_shader_module_leaks_old(m, objs, name, spirv) ==
    LET h  == Fresh(objs, "shader_module", 1)[1]
        o1 == [objs EXCEPT !["shader_module"] = Append(@, Object(spirv))]
    IN  [shader_modules |-> MapInsert(m, name, h), objects |-> o1]

\* insert_shader_module (lines 836-847) on the registry m and the device:
\* create the module, bind the name to it, destroy the module it replaces
insert_shader_module(m, objs, name, spirv) ==
    LET h  == Fresh(objs, "shader_module", 1)[1]
        o1 == [objs EXCEPT !["shader_module"] = Append(@, Object(spirv))]
    IN  [shader_modules |-> MapInsert(m, name, h),
         objects |-> IF name \in DOMAIN m THEN Destroy(o1, {m[name]}) ELSE o1]

\* `for SpirvShader { name, spirv } in list { ctx.insert_shader_module(..) }`
\* (lines 65-67 and 87-89)
RECURSIVE insert_all(_, _, _)
insert_all(m, objs, list) ==
    IF list = <<>> THEN [shader_modules |-> m, objects |-> objs]
    ELSE LET r == insert_shader_module(m, objs, list[1].name, list[1].spirv)
         IN  insert_all(r.shader_modules, r.objects, Tail(list))

\* lines 757-767: every module name of the shader set resolves (the unwraps)
modules_resolve(c) ==
    \A i \in 1..Len(c.shader_set) :
        /\ c.shader_set[i][1].module \in DOMAIN c.shader_modules
        /\ c.shader_set[i][2].module \in DOMAIN c.shader_modules

\* lines 757-767: per pair (vert, frag) of the shader set, the tuple
\* ((frag_module, frag_name), (vert_module, vert_name))
modules_names(c) ==
    [i \in 1..Len(c.shader_set) |->
        LET vert == c.shader_set[i][1]
            frag == c.shader_set[i][2]
        IN  << <<c.shader_modules[frag.module], frag.entry_point>>,
               <<c.shader_modules[vert.module], vert.entry_point>> >>]

\* variant of the descriptor that destructures the tuple as
\* ((vert_module, vert_name), (frag_module, frag_name))
shader_stages_swapped(mn) ==
    <<[stage |-> "VERTEX", module |-> mn[1][1], p_name |-> mn[1][2]],
      [stage |-> "FRAGMENT", module |-> mn[2][1], p_name |-> mn[2][2]]>>

\* lines 771-786: the two PipelineShaderStageCreateInfo of a descriptor, made
\* from a tuple destructured as ((frag_module, frag_name), (vert_module, vert_name))
shader_stages(mn) ==
    <<[stage |-> "VERTEX", module |-> mn[2][1], p_name |-> mn[2][2]],
      [stage |-> "FRAGMENT", module |-> mn[1][1], p_name |-> mn[1][2]]>>

\* the module / entry point a pipeline was created with for a stage
StageOf(stages, stage) == CHOOSE st \in Range(stages) : st.stage = stage

\* rebuild_pipelines (lines 755-822), when the unwraps succeed: one new
\* layout, one new pipeline per pair; self.pipelines is overwritten and the
\* pipelines and layout it held are dropped without a destroy call
rebuild_pipelines(c, objs) ==
    LET n      == Len(c.shader_set)
        o1     == Alloc(objs, "pipeline_layout", 1)
        layout == Fresh(objs, "pipeline_layout", 1)[1]
        o2     == Alloc(o1, "pipeline", n)
        made   == Fresh(objs, "pipeline", n)
        descs  == [i \in 1..n |-> shader_stages(modules_names(c)[i])]
    IN  [objects |-> o2,
         pipelines |->
            [i \in 1..n |->
                [pipeline |-> made[i],
                 pipeline_layout |-> layout,
                 vertex_module |-> StageOf(descs[i], "VERTEX").module,
                 vertex_name |-> StageOf(descs[i], "VERTEX").p_name,
                 fragment_module |-> StageOf(descs[i], "FRAGMENT").module,
                 fragment_name |-> StageOf(descs[i], "FRAGMENT").p_name]]]

\* the locals of render and draw: the acquired image index, the position in
\* `for pipeline in self.pipelines.iter()`, and the render area of line 955
NoFrame == [present_index |-> 0, draw_i |-> 0, render_area |-> Extent2D(0, 0)]

\* ------------------------------------------------------------------- Init
\* the state when main starts: nothing compiled, no context, winit's default
\* control flow, the window at its initial size
Init ==
    /\ IS_COMPILING = FALSE
    /\ NEEDS_REBUILD = FALSE
    /\ NEW_SHADERS = <<>>
    /\ threads = <<>>
    /\ rpc = "main_compile"
    /\ event = [type |-> "None"]
    /\ control_flow = "Poll"
    /\ shaders = <<>>
    /\ frame = NoFrame
    /\ ctx = NoCtx
    /\ objects = NoObjects
    /\ signaled = {}
    /\ queue = <<>>
    /\ draw_cb = [state |-> "initial", content |-> <<>>]
    /\ \E caps \in SurfaceCaps, defined \in BOOLEAN :
          window = [inner |-> Extent2D(INIT_WIDTH, INIT_HEIGHT), defined |-> defined,
                    caps |-> caps]
    /\ resize_events = <<>>
    /\ resizes = 0

\* ---------------------------------------------------------------- startup
\* line 50: compile_shaders on the main thread; a panic ends the process
MainCompile ==
    /\ rpc = "main_compile"
    /\ \E r \in CompileResults(0) :
          IF r.ok
          THEN rpc' = "from_base" /\ shaders' = r.shaders
          ELSE rpc' = "panicked" /\ shaders' = shaders
    /\ UNCHANGED <<hotVars, threadVars, event, control_flow, frame, ctx,
                   gpuVars, envVars>>

\* variant of the construction that creates the fences unsignaled
MainFromBase_unsignaled ==
    /\ rpc = "from_base"
    /\ LET r == from_base(objects, window) IN
          /\ objects' = r.objects
          /\ ctx' = r.ctx
          /\ signaled' = {}
    /\ rpc' = "insert_modules"
    /\ UNCHANGED <<hotVars, threadVars, event, control_flow, shaders, frame, queue, draw_cb, envVars>>

\* line 62: RenderBase::new(..).into_ctx(); the fences are created signaled
MainFromBase ==
    /\ rpc = "from_base"
    /\ LET r == from_base(objects, window) IN
          /\ objects' = r.objects
          /\ ctx' = r.ctx
          /\ signaled' = {r.ctx.sync.draw_commands_reuse_fence,
                          r.ctx.sync.setup_commands_reuse_fence}
    /\ rpc' = "insert_modules"
    /\ UNCHANGED <<hotVars, threadVars, event, control_flow, shaders, frame, queue, draw_cb, envVars>>

\* lines 65-67
MainInsertModules ==
    /\ rpc = "insert_modules"
    /\ LET r == insert_all(ctx.shader_modules, objects, shaders) IN
          /\ ctx' = [ctx EXCEPT !.shader_modules = r.shader_modules]
          /\ objects' = r.objects
    /\ shaders' = <<>>
    /\ rpc' = "build_pipelines"
    /\ UNCHANGED <<hotVars, threadVars, event, control_flow, frame,
                   signaled, queue, draw_cb, envVars>>

\* lines 68-80: build_pipelines sets the shader set and rebuilds
\* (lines 824-831); an unresolved module name panics after the layout was made
MainBuildPipelines ==
    /\ rpc = "build_pipelines"
    /\ LET c == [ctx EXCEPT !.shader_set = MainShaderSet] IN
          IF modules_resolve(c)
          THEN LET r == rebuild_pipelines(c, objects) IN
                  /\ ctx' = [c EXCEPT !.pipelines = r.pipelines]
                  /\ objects' = r.objects
                  /\ rpc' = "events"
          ELSE /\ ctx' = c
               /\ objects' = Alloc(objects, "pipeline_layout", 1)
               /\ rpc' = "panicked"
    /\ UNCHANGED <<hotVars, threadVars, event, control_flow, shaders, frame, signaled, queue, draw_cb, envVars>>

\* ------------------------------------------------------ the compile thread
\* the closure of lines 102-108, one step per shared access; `status` is the
\* exit status of the thread's cargo run (cargo_out.status, which the code
\* never reads), 0 until cargo has run and again once the thread has ended
Thread(pc, result, status) == [pc |-> pc, result |-> result, status |-> status]

\* variant of the closure that sets NEEDS_REBUILD as soon as compile_shaders
\* has returned, before the result is stored
ThreadCompile_publishes_first(t) ==
    /\ threads[t].pc = "compile"
    /\ \E o \in CompileOutcomes(t) :
          /\ threads' = [threads EXCEPT
                            ![t] = Thread(IF o.result.ok THEN "store" ELSE "panicked",
                                          o.result, o.status)]
          /\ NEEDS_REBUILD' = IF o.result.ok THEN TRUE ELSE NEEDS_REBUILD
    /\ UNCHANGED <<IS_COMPILING, NEW_SHADERS, loopVars, ctx, gpuVars, envVars>>

\* line 104, right-hand side: compile_shaders runs; a panic unwinds the
\* thread before anything is stored
ThreadCompile(t) ==
    /\ threads[t].pc = "compile"
    /\ \E o \in CompileOutcomes(t) :
          threads' = [threads EXCEPT
                         ![t] = Thread(IF o.result.ok THEN "store" ELSE "panicked",
                                       o.result, o.status)]
    /\ UNCHANGED <<hotVars, loopVars, ctx, gpuVars, envVars>>

\* line 104, the assignment to the static: the returned Vec is moved into it
ThreadStore(t) ==
    /\ threads[t].pc = "store"
    /\ NEW_SHADERS' = threads[t].result.shaders
    /\ threads' = [threads EXCEPT ![t].pc = "set_needs_rebuild", ![t].result = Panicked]
    /\ UNCHANGED <<IS_COMPILING, NEEDS_REBUILD, loopVars, ctx, gpuVars, envVars>>

\* line 106
ThreadSetNeedsRebuild(t) ==
    /\ threads[t].pc = "set_needs_rebuild"
    /\ NEEDS_REBUILD' = TRUE
    /\ threads' = [threads EXCEPT ![t].pc = "clear_is_compiling"]
    /\ UNCHANGED <<IS_COMPILING, NEW_SHADERS, loopVars, ctx, gpuVars, envVars>>

\* line 107
ThreadClearIsCompiling(t) ==
    /\ threads[t].pc = "clear_is_compiling"
    /\ IS_COMPILING' = FALSE
    /\ threads' = [threads EXCEPT ![t].pc = "done", ![t].status = 0]
    /\ UNCHANGED <<NEEDS_REBUILD, NEW_SHADERS, loopVars, ctx, gpuVars, envVars>>

LiveThreadPcs == {"compile", "store", "set_needs_rebuild", "clear_is_compiling"}

\* the compile threads that have been spawned and have not ended
ActiveThreads == {t \in 1..Len(threads) : threads[t].pc \in LiveThreadPcs}

\* ---------------------------------------------------------- event dispatch
RedrawEventsCleared == [type |-> "RedrawEventsCleared"]

KeyboardInput(key) == [type |-> "KeyboardInput", key |-> key]

Resized(size) == [type |-> "Resized", size |-> size]

CloseRequested == [type |-> "CloseRequested"]

\* every other event winit delivers (NewEvents, MainEventsCleared, ...)
OtherEvent == [type |-> "Other"]

\* the reload key has been pressed and its handler has not run: it may spawn
\* a compile thread
PendingSpawn == IF rpc = "handle" /\ event = KeyboardInput("F5") THEN 1 ELSE 0

\* the reload key is delivered while the run may still spawn a thread
SpawnsLeft == Len(threads) < MaxSpawns /\ Len(threads) + resizes < MaxInputs

\* the window system may still resize the window in this run
ResizesLeft == resizes < MaxResizes /\ Len(threads) + resizes + PendingSpawn < MaxInputs

\* winit calls the closure of line 82 with the next event; Resized events
\* come in the order the window system issued them
Dispatch ==
    /\ rpc = "events"
    /\ control_flow # "Exit"
    /\ \/ /\ event' \in {RedrawEventsCleared, KeyboardInput("Escape"),
                         KeyboardInput("Other"), CloseRequested, OtherEvent}
          /\ UNCHANGED resize_events
       \/ /\ SpawnsLeft
          /\ event' = KeyboardInput("F5")
          /\ UNCHANGED resize_events
       \/ /\ resize_events # <<>>
          /\ event' = Resized(Head(resize_events))
          /\ resize_events' = Tail(resize_events)
    /\ rpc' = "handle"
    /\ UNCHANGED <<hotVars, threadVars, control_flow, shaders, frame, ctx,
                   gpuVars, window, resizes>>

\* the loop ends once the control flow is Exit
LoopExit ==
    /\ rpc = "events"
    /\ control_flow = "Exit"
    /\ rpc' = "exited"
    /\ UNCHANGED <<hotVars, threadVars, event, control_flow, shaders, frame, ctx, gpuVars, envVars>>

\* the closure returns to winit: the event is dropped
NoEvent == [type |-> "None"]

Return == rpc' = "events" /\ event' = NoEvent

\* ------------------------------------------------------------ key handlers
\* line 98 and line 117
HandleExit ==
    /\ rpc = "handle"
    /\ event \in {KeyboardInput("Escape"), CloseRequested}
    /\ control_flow' = "Exit"
    /\ Return
    /\ UNCHANGED <<hotVars, threadVars, shaders, frame, ctx,
                   gpuVars, envVars>>

\* lines 112, 118, 120
HandleOther ==
    /\ rpc = "handle"
    /\ event \in {KeyboardInput("Other"), OtherEvent}
    /\ control_flow' = "Wait"
    /\ Return
    /\ UNCHANGED <<hotVars, threadVars, shaders, frame, ctx,
                   gpuVars, envVars>>

\* variant of the F5 handler with a plain store in place of the
\* compare-and-swap: a thread is spawned on every press
HandleF5_always_spawns ==
    /\ rpc = "handle"
    /\ event = KeyboardInput("F5")
    /\ IS_COMPILING' = TRUE
    /\ threads' = Append(threads, Thread("compile", Panicked, 0))
    /\ control_flow' = "Wait"
    /\ Return
    /\ UNCHANGED <<NEEDS_REBUILD, NEW_SHADERS, shaders, frame, ctx, gpuVars, envVars>>

\* variant of the F5 handler that restarts the running compile when the
\* compare-and-swap fails
HandleF5_restarts ==
    /\ rpc = "handle"
    /\ event = KeyboardInput("F5")
    /\ IF IS_COMPILING = FALSE
       THEN /\ IS_COMPILING' = TRUE
            /\ threads' = Append(threads, Thread("compile", Panicked, 0))
       ELSE /\ IS_COMPILING' = IS_COMPILING
            /\ threads' = [t \in 1..Len(threads) |->
                              IF threads[t].pc \in {"store", "set_needs_rebuild"}
                              THEN Thread("compile", Panicked, 0) ELSE threads[t]]
    /\ control_flow' = "Wait"
    /\ Return
    /\ UNCHANGED <<NEEDS_REBUILD, NEW_SHADERS, shaders, frame, ctx, gpuVars, envVars>>

\* variant of the F5 handler that spawns the thread without setting
\* IS_COMPILING
HandleF5_no_flag ==
    /\ rpc = "handle"
    /\ event = KeyboardInput("F5")
    /\ IF IS_COMPILING = FALSE
       THEN /\ IS_COMPILING' = IS_COMPILING
            /\ threads' = Append(threads, Thread("compile", Panicked, 0))
       ELSE UNCHANGED <<IS_COMPILING, threads>>
    /\ control_flow' = "Wait"
    /\ Return
    /\ UNCHANGED <<NEEDS_REBUILD, NEW_SHADERS, shaders, frame, ctx, gpuVars, envVars>>

\* lines 99-111: compare_and_swap(false, true) returns the previous value; a
\* thread is spawned only when that was false
HandleF5 ==
    /\ rpc = "handle"
    /\ event = KeyboardInput("F5")
    /\ IF IS_COMPILING = FALSE
       THEN /\ IS_COMPILING' = TRUE
            /\ threads' = Append(threads, Thread("compile", Panicked, 0))
       ELSE UNCHANGED <<IS_COMPILING, threads>>
    /\ control_flow' = "Wait"
    /\ Return
    /\ UNCHANGED <<NEEDS_REBUILD, NEW_SHADERS, shaders, frame, ctx,
                   gpuVars, envVars>>

\* ------------------------------------------- RedrawEventsCleared: the poll
\* variant of the poll that waits until no compile is running
HandleRedraw_waits ==
    /\ rpc = "handle"
    /\ event = RedrawEventsCleared
    /\ ~IS_COMPILING
    /\ rpc' = "load_needs_rebuild"
    /\ UNCHANGED <<hotVars, threadVars, event, control_flow, shaders, frame, ctx, gpuVars, envVars>>

\* line 84, left operand: load IS_COMPILING; true skips the rebuild
HandleRedraw ==
    /\ rpc = "handle"
    /\ event = RedrawEventsCleared
    /\ rpc' = IF IS_COMPILING THEN "acquire" ELSE "load_needs_rebuild"
    /\ UNCHANGED <<hotVars, threadVars, event, control_flow, shaders, frame, ctx, gpuVars, envVars>>

\* line 84, right operand: load NEEDS_REBUILD
PollNeedsRebuild ==
    /\ rpc = "load_needs_rebuild"
    /\ rpc' = IF NEEDS_REBUILD THEN "drain" ELSE "acquire"
    /\ UNCHANGED <<hotVars, threadVars, event, control_flow, shaders, frame, ctx, gpuVars, envVars>>

\* variant of the poll that renders the frame right after the drain and
\* leaves the rebuild to a later poll
PollDrain_renders_first ==
    /\ rpc = "drain"
    /\ LET r == insert_all(ctx.shader_modules, objects, NEW_SHADERS) IN
          /\ ctx' = [ctx EXCEPT !.shader_modules = r.shader_modules]
          /\ objects' = r.objects
    /\ NEW_SHADERS' = <<>>
    /\ rpc' = IF NEW_SHADERS = <<>> THEN "rebuild_pipelines" ELSE "acquire"
    /\ UNCHANGED <<IS_COMPILING, NEEDS_REBUILD, threadVars, event, control_flow, shaders,
                   frame, signaled, queue, draw_cb, envVars>>

\* lines 87-89: NEW_SHADERS.drain(..) into insert_shader_module
PollDrain ==
    /\ rpc = "drain"
    /\ LET r == insert_all(ctx.shader_modules, objects, NEW_SHADERS) IN
          /\ ctx' = [ctx EXCEPT !.shader_modules = r.shader_modules]
          /\ objects' = r.objects
    /\ NEW_SHADERS' = <<>>
    /\ rpc' = "rebuild_pipelines"
    /\ UNCHANGED <<IS_COMPILING, NEEDS_REBUILD, threadVars, event, control_flow, shaders,
                   frame, signaled, queue, draw_cb, envVars>>

\* variant of the poll's rebuild that also replaces the render pass
PollRebuild_new_render_pass ==
    /\ rpc = "rebuild_pipelines"
    /\ IF modules_resolve(ctx)
       THEN LET o1 == Alloc(objects, "render_pass", 1)
                r  == rebuild_pipelines(ctx, o1)
            IN  /\ ctx' = [ctx EXCEPT !.pipelines = r.pipelines,
                                      !.render_pass = Fresh(objects, "render_pass", 1)[1]]
                /\ objects' = r.objects
                /\ rpc' = "store_needs_rebuild"
       ELSE /\ ctx' = ctx
            /\ objects' = Alloc(objects, "pipeline_layout", 1)
            /\ rpc' = "panicked"
    /\ UNCHANGED <<hotVars, threadVars, event, control_flow, shaders, frame, signaled, queue, draw_cb, envVars>>

\* line 91
PollRebuild ==
    /\ rpc = "rebuild_pipelines"
    /\ IF modules_resolve(ctx)
       THEN LET r == rebuild_pipelines(ctx, objects) IN
               /\ ctx' = [ctx EXCEPT !.pipelines = r.pipelines]
               /\ objects' = r.objects
               /\ rpc' = "store_needs_rebuild"
       ELSE /\ ctx' = ctx
            /\ objects' = Alloc(objects, "pipeline_layout", 1)
            /\ rpc' = "panicked"
    /\ UNCHANGED <<hotVars, threadVars, event, control_flow, shaders, frame, signaled, queue, draw_cb, envVars>>

\* variant of the poll that does not clear NEEDS_REBUILD after the rebuild
PollStoreNeedsRebuild_forgets ==
    /\ rpc = "store_needs_rebuild"
    /\ rpc' = "acquire"
    /\ UNCHANGED <<hotVars, threadVars, event, control_flow, shaders, frame, ctx, gpuVars,
                   envVars>>

\* line 92
PollStoreNeedsRebuild ==
    /\ rpc = "store_needs_rebuild"
    /\ NEEDS_REBUILD' = FALSE
    /\ rpc' = "acquire"
    /\ UNCHANGED <<IS_COMPILING, NEW_SHADERS, threadVars, event, control_flow, shaders,
                   frame, ctx, gpuVars, envVars>>

\* ------------------------------------------------------ recreate_swapchain
\* variant of recreate_swapchain that creates the new swapchain while the old
\* one still exists, and destroys the old generation afterwards
recreate_swapchain_create_first ==
    <<"device_wait_idle", "create_swapchain", "destroy_framebuffers",
      "free_command_buffers", "destroy_render_pass", "destroy_image_views",
      "destroy_swapchain", "create_image_views", "create_render_pass",
      "allocate_command_buffers", "create_framebuffers">>

\* the calls of recreate_swapchain (lines 850-903), in the order it makes them
recreate_swapchain ==
    <<"device_wait_idle", "destroy_framebuffers", "free_command_buffers",
      "destroy_render_pass", "destroy_image_views", "destroy_swapchain",
      "create_swapchain", "create_image_views", "create_render_pass",
      "allocate_command_buffers", "create_framebuffers">>

\* the position after a call of recreate_swapchain; the handler returns after
\* the last one
AfterRecreateStep(step) ==
    LET i == CHOOSE k \in 1..Len(recreate_swapchain) : recreate_swapchain[k] = step IN
    IF i = Len(recreate_swapchain) THEN "events" ELSE recreate_swapchain[i + 1]

\* a call of recreate_swapchain has returned
RecreateAdvance ==
    /\ rpc' = AfterRecreateStep(rpc)
    /\ event' = IF AfterRecreateStep(rpc) = "events" THEN NoEvent ELSE event

RecreateUnchanged ==
    UNCHANGED <<hotVars, threadVars, control_flow, shaders, frame, signaled, queue,
                envVars>>

\* lines 114-116: the size the event carries is not read
HandleResized ==
    /\ rpc = "handle"
    /\ event.type = "Resized"
    /\ rpc' = recreate_swapchain[1]
    /\ UNCHANGED <<event, ctx, objects, draw_cb>>
    /\ RecreateUnchanged

\* variant of recreate_swapchain that goes on to the destroy calls without
\* waiting for the device
DeviceWaitIdle_no_wait ==
    /\ rpc = "device_wait_idle"
    /\ RecreateAdvance
    /\ UNCHANGED <<ctx, objects, draw_cb>>
    /\ RecreateUnchanged

\* line 853: returns once the queue has nothing left to execute
DeviceWaitIdle ==
    /\ rpc = "device_wait_idle"
    /\ queue = <<>>
    /\ RecreateAdvance
    /\ UNCHANGED <<ctx, objects, draw_cb>>
    /\ RecreateUnchanged

\* lines 855-857
DestroyFramebuffers ==
    /\ rpc = "destroy_framebuffers"
    /\ objects' = Destroy(objects, Range(ctx.framebuffers))
    /\ ctx' = [ctx EXCEPT !.framebuffers = <<>>]
    /\ RecreateAdvance
    /\ UNCHANGED draw_cb
    /\ RecreateUnchanged

\* lines 859-865
FreeCommandBuffers ==
    /\ rpc = "free_command_buffers"
    /\ objects' = Destroy(objects, {ctx.commands.draw_command_buffer,
                                    ctx.commands.setup_command_buffer})
    /\ RecreateAdvance
    /\ UNCHANGED <<ctx, draw_cb>>
    /\ RecreateUnchanged

\* line 867
DestroyRenderPass ==
    /\ rpc = "destroy_render_pass"
    /\ objects' = Destroy(objects, {ctx.render_pass})
    /\ RecreateAdvance
    /\ UNCHANGED <<ctx, draw_cb>>
    /\ RecreateUnchanged

\* lines 869-871
DestroyImageViews ==
    /\ rpc = "destroy_image_views"
    /\ objects' = Destroy(objects, Range(ctx.image_views))
    /\ ctx' = [ctx EXCEPT !.image_views = <<>>]
    /\ RecreateAdvance
    /\ UNCHANGED draw_cb
    /\ RecreateUnchanged

\* lines 873-875
DestroySwapchain ==
    /\ rpc = "destroy_swapchain"
    /\ objects' = Destroy(objects, {ctx.swapchain})
    /\ RecreateAdvance
    /\ UNCHANGED <<ctx, draw_cb>>
    /\ RecreateUnchanged

\* line 878: create_swapchain (lines 425-468) takes the image extent from
\* surface_resolution() at the time of the call
CreateSwapchain ==
    /\ rpc = "create_swapchain"
    /\ objects' = Alloc(objects, "swapchain", 1)
    /\ ctx' = [ctx EXCEPT !.swapchain = Fresh(objects, "swapchain", 1)[1],
                          !.image_extent = surface_resolution(window)]
    /\ RecreateAdvance
    /\ UNCHANGED draw_cb
    /\ RecreateUnchanged

\* line 880: one view per image of the swapchain
CreateImageViews ==
    /\ rpc = "create_image_views"
    /\ LET n == desired_image_count(window.caps) IN
          /\ objects' = Alloc(objects, "image_view", n)
          /\ ctx' = [ctx EXCEPT !.image_views = Fresh(objects, "image_view", n)]
    /\ RecreateAdvance
    /\ UNCHANGED draw_cb
    /\ RecreateUnchanged

\* variant of the render-pass step that also rebuilds the pipelines against
\* the new render pass
CreateRenderPass_rebuilds_pipelines ==
    /\ rpc = "create_render_pass"
    /\ LET o1 == Alloc(objects, "render_pass", 1)
           r  == rebuild_pipelines(ctx, o1)
       IN  /\ objects' = r.objects
           /\ ctx' = [ctx EXCEPT !.render_pass = Fresh(objects, "render_pass", 1)[1],
                                 !.pipelines = r.pipelines]
    /\ RecreateAdvance
    /\ UNCHANGED draw_cb
    /\ RecreateUnchanged

\* line 882
CreateRenderPass ==
    /\ rpc = "create_render_pass"
    /\ objects' = Alloc(objects, "render_pass", 1)
    /\ ctx' = [ctx EXCEPT !.render_pass = Fresh(objects, "render_pass", 1)[1]]
    /\ RecreateAdvance
    /\ UNCHANGED draw_cb
    /\ RecreateUnchanged

\* lines 884-898: two buffers from the old pool, [0] setup and [1] draw
AllocateCommandBuffers ==
    /\ rpc = "allocate_command_buffers"
    /\ objects' = Alloc(objects, "command_buffer", 2)
    /\ ctx' = [ctx EXCEPT !.commands.setup_command_buffer =
                              Fresh(objects, "command_buffer", 2)[1],
                          !.commands.draw_command_buffer =
                              Fresh(objects, "command_buffer", 2)[2]]
    /\ draw_cb' = [state |-> "initial", content |-> <<>>]
    /\ RecreateAdvance
    /\ RecreateUnchanged

\* lines 900-902: create_framebuffers (lines 502-527), one per image view,
\* sized by surface_resolution() at the time of the call
CreateFramebuffers ==
    /\ rpc = "create_framebuffers"
    /\ LET n == Len(ctx.image_views) IN
          /\ objects' = Alloc(objects, "framebuffer", n)
          /\ ctx' = [ctx EXCEPT !.framebuffers = Fresh(objects, "framebuffer", n),
                                !.framebuffer_extent = surface_resolution(window)]
    /\ RecreateAdvance
    /\ UNCHANGED draw_cb
    /\ RecreateUnchanged

\* ----------------------------------------------------- the queue (the GPU)
\* the effect of executing one queue operation: the wait semaphore is
\* consumed, the signal semaphore and the fence are signaled
Execute(sig, op) == (sig \ {op.wait}) \cup ({op.signal, op.fence} \ {NullHandle})

\* a present at the head of the queue has nothing to execute before it: it
\* takes effect at once
RECURSIVE RunPresents(_, _)
RunPresents(sig, q) ==
    IF q # <<>> /\ Head(q).op = "present"
    THEN RunPresents(Execute(sig, Head(q)), Tail(q))
    ELSE [signaled |-> sig, queue |-> q]

\* ------------------------------------------------------------------ render
\* the swapchain no longer matches the surface (VK_ERROR_OUT_OF_DATE_KHR is
\* then a result acquire and present may return)
OutOfDate == ctx.image_extent # surface_resolution(window)

RenderUnchanged ==
    UNCHANGED <<hotVars, threadVars, control_flow, shaders, ctx, objects, envVars>>

\* lines 906-918: acquire_next_image signals present_complete_semaphore and
\* yields an image index; an error result panics ("failed to acquire next image")
Acquire ==
    /\ rpc = "acquire"
    /\ \/ /\ \E i \in 0..(Len(ctx.framebuffers) - 1) :
                frame' = [present_index |-> i, draw_i |-> 1, render_area |-> Extent2D(0, 0)]
          /\ signaled' = signaled \cup {ctx.sync.present_complete_semaphore}
          /\ rpc' = IF ctx.pipelines = <<>> THEN "queue_present" ELSE "draw"
       \/ /\ OutOfDate
          /\ rpc' = "panicked"
          /\ UNCHANGED <<frame, signaled>>
    /\ UNCHANGED <<event, queue, draw_cb>>
    /\ RenderUnchanged

\* lines 950-958: the render area is the surface resolution read now
DrawBeginInfo ==
    /\ rpc = "draw"
    /\ frame' = [frame EXCEPT !.render_area = surface_resolution(window)]
    /\ rpc' = "wait_for_fences"
    /\ UNCHANGED <<event, signaled, queue, draw_cb>>
    /\ RenderUnchanged

\* variant of the fence wait that returns without waiting
WaitForFences_no_wait ==
    /\ rpc = "wait_for_fences"
    /\ rpc' = "reset_fences"
    /\ UNCHANGED <<event, frame, signaled, queue, draw_cb>>
    /\ RenderUnchanged

\* lines 1004-1007: blocks until the draw fence is signaled
WaitForFences ==
    /\ rpc = "wait_for_fences"
    /\ ctx.sync.draw_commands_reuse_fence \in signaled
    /\ rpc' = "reset_fences"
    /\ UNCHANGED <<event, frame, signaled, queue, draw_cb>>
    /\ RenderUnchanged

\* lines 1009-1012
ResetFences ==
    /\ rpc = "reset_fences"
    /\ signaled' = signaled \ {ctx.sync.draw_commands_reuse_fence}
    /\ rpc' = "reset_command_buffer"
    /\ UNCHANGED <<event, frame, queue, draw_cb>>
    /\ RenderUnchanged

\* lines 1014-1020
ResetCommandBuffer ==
    /\ rpc = "reset_command_buffer"
    /\ draw_cb' = [state |-> "initial", content |-> <<>>]
    /\ rpc' = "record"
    /\ UNCHANGED <<event, frame, signaled, queue>>
    /\ RenderUnchanged

\* the commands of the closure of lines 961-991: begin the render pass, bind
\* the pipeline, set viewport and scissor, push the constants, draw, end
DrawCommands(c, f) ==
    <<[render_pass |-> c.render_pass,
       framebuffer |-> c.framebuffers[f.present_index + 1],
       render_area |-> f.render_area,
       pipeline |-> c.pipelines[f.draw_i].pipeline,
       pipeline_layout |-> c.pipelines[f.draw_i].pipeline_layout,
       viewport |-> c.viewports,
       scissor |-> c.scissors,
       push_constants |-> [width |-> PUSH_WIDTH, height |-> PUSH_HEIGHT],
       vertex_count |-> 3]>>

\* lines 1022-1038: begin_command_buffer, the closure, end_command_buffer
RecordDraw ==
    /\ rpc = "record"
    /\ draw_cb' = [state |-> "executable", content |-> DrawCommands(ctx, frame)]
    /\ rpc' = "queue_submit"
    /\ UNCHANGED <<event, frame, signaled, queue>>
    /\ RenderUnchanged

\* lines 1040-1056: the submission waits on present_complete_semaphore and
\* signals rendering_complete_semaphore and the draw fence; then the loop of
\* lines 925-927 goes on to the next pipeline
QueueSubmit ==
    /\ rpc = "queue_submit"
    /\ queue' = Append(queue, [op |-> "submit",
                               command_buffer |-> ctx.commands.draw_command_buffer,
                               content |-> draw_cb.content,
                               wait |-> ctx.sync.present_complete_semaphore,
                               signal |-> ctx.sync.rendering_complete_semaphore,
                               fence |-> ctx.sync.draw_commands_reuse_fence])
    /\ IF frame.draw_i < Len(ctx.pipelines)
       THEN frame' = [frame EXCEPT !.draw_i = @ + 1] /\ rpc' = "draw"
       ELSE frame' = frame /\ rpc' = "queue_present"
    /\ UNCHANGED <<event, signaled, draw_cb>>
    /\ RenderUnchanged

\* the queue operation of vkQueuePresentKHR (lines 929-935)
PresentOp(c) ==
    [op |-> "present", command_buffer |-> NullHandle, content |-> <<>>,
     wait |-> c.sync.rendering_complete_semaphore, signal |-> NullHandle,
     fence |-> NullHandle]

\* lines 929-941: the present waits on rendering_complete_semaphore; an error
\* result panics ("failed to present queue"); then the closure returns
QueuePresent ==
    /\ rpc = "queue_present"
    /\ \/ /\ LET r == RunPresents(signaled, Append(queue, PresentOp(ctx))) IN
                signaled' = r.signaled /\ queue' = r.queue
          /\ frame' = NoFrame
          /\ Return
       \/ /\ OutOfDate
          /\ rpc' = "panicked"
          /\ UNCHANGED <<event, frame, queue, signaled>>
    /\ UNCHANGED draw_cb
    /\ RenderUnchanged

\* -------------------------------------------------------- the environment
Running == rpc \notin {"main_compile", "panicked", "exited"}

\* the GPU finishes the oldest submission
GpuExecute ==
    /\ Running
    /\ queue # <<>>
    /\ LET r == RunPresents(Execute(signaled, Head(queue)), Tail(queue)) IN
          signaled' = r.signaled /\ queue' = r.queue
    /\ UNCHANGED <<hotVars, threadVars, loopVars, ctx, objects, draw_cb, envVars>>

\* the draw command buffer is part of a submission the GPU has not finished
DrawBufferPending ==
    \E i \in 1..Len(queue) :
        /\ queue[i].op = "submit"
        /\ queue[i].command_buffer = ctx.commands.draw_command_buffer

\* ------------------------------------------------------- the window system
\* the user resizes the window: the surface changes at once, the Resized
\* event is delivered when the loop gets to it
WindowResize ==
    /\ Running
    /\ ResizesLeft
    /\ \E e \in Extents \ {window.inner} :
          /\ window' = [window EXCEPT !.inner = e]
          /\ resize_events' = Append(resize_events, e)
    /\ resizes' = resizes + 1
    /\ UNCHANGED <<hotVars, threadVars, loopVars, ctx, gpuVars>>

\* ------------------------------------------------------------------- Next
ThreadStep ==
    \E t \in 1..Len(threads) :
        /\ Running
        /\ \/ ThreadCompile(t)
           \/ ThreadStore(t)
           \/ ThreadSetNeedsRebuild(t)
           \/ ThreadClearIsCompiling(t)

Next ==
    \/ MainCompile \/ MainFromBase \/ MainInsertModules \/ MainBuildPipelines
    \/ Dispatch \/ LoopExit
    \/ HandleExit \/ HandleOther \/ HandleF5
    \/ HandleRedraw \/ PollNeedsRebuild \/ PollDrain \/ PollRebuild
    \/ PollStoreNeedsRebuild
    \/ HandleResized \/ DeviceWaitIdle \/ DestroyFramebuffers \/ FreeCommandBuffers
    \/ DestroyRenderPass \/ DestroyImageViews \/ DestroySwapchain \/ CreateSwapchain
    \/ CreateImageViews \/ CreateRenderPass \/ AllocateCommandBuffers
    \/ CreateFramebuffers
    \/ Acquire \/ DrawBeginInfo \/ WaitForFences \/ ResetFences \/ ResetCommandBuffer
    \/ RecordDraw \/ QueueSubmit
    \/ QueuePresent
    \/ GpuExecute
    \/ WindowResize
    \/ ThreadStep

Spec == Init /\ [][Next]_vars

\* ------------------------------------------------------ progress (LiveSpec)
\* the code the event-loop thread runs once winit has called the closure, and
\* winit's return from run once the control flow is Exit
LoopRun ==
    \/ MainCompile \/ MainFromBase \/ MainInsertModules \/ MainBuildPipelines
    \/ LoopExit
    \/ HandleExit \/ HandleOther \/ HandleF5
    \/ HandleRedraw \/ PollNeedsRebuild \/ PollDrain \/ PollRebuild
    \/ PollStoreNeedsRebuild
    \/ HandleResized \/ DeviceWaitIdle \/ DestroyFramebuffers \/ FreeCommandBuffers
    \/ DestroyRenderPass \/ DestroyImageViews \/ DestroySwapchain \/ CreateSwapchain
    \/ CreateImageViews \/ CreateRenderPass \/ AllocateCommandBuffers
    \/ CreateFramebuffers
    \/ Acquire \/ DrawBeginInfo \/ WaitForFences \/ ResetFences \/ ResetCommandBuffer
    \/ RecordDraw \/ QueueSubmit
    \/ QueuePresent

\* under ControlFlow::Poll winit starts the next iteration of the loop at
\* once; under ControlFlow::Wait it sleeps until the window system has an
\* event for it
PollDispatch == control_flow = "Poll" /\ Dispatch

\* The GPU finishes what is submitted to it, and wait_for_fences returns once
\* the fence is signaled.
GpuLiveSpec ==
    /\ Init /\ [][Next]_vars
    /\ WF_vars(WaitForFences)
    /\ WF_vars(GpuExecute)

\* The event-loop thread is scheduled, the GPU finishes what is submitted to
\* it, and winit iterates without an outside event only under
\* ControlFlow::Poll.  Key presses, resizes and the other events of the
\* window system may stop coming at any time, and a compile may take forever.
LiveSpec ==
    /\ Init /\ [][Next]_vars
    /\ WF_vars(LoopRun)
    /\ WF_vars(GpuExecute)
    /\ WF_vars(PollDispatch)

\* ------------------------------------ RenderCtx driven call by call (CtxSpec)
\* The public methods insert_shader_module, build_pipelines,
\* rebuild_pipelines and render of a RenderCtx, called in any order with any
\* arguments, while the GPU works off the queue.
ModuleNames == {"sky_shader", "aux_shader"}

EntryPairs ==
    {<<VertexShaderEntryPoint(v, "main_vs"), FragmentShaderEntryPoint(f, "main_fs")>> :
        v \in ModuleNames, f \in ModuleNames}

ShaderSets == SeqsUpTo(EntryPairs, MaxPairs)

\* the calls made so far: every insert creates a module, every (re)build a layout
Calls == Len(objects["shader_module"]) + Len(objects["pipeline_layout"])

\* a RenderCtx fresh from RenderBase::new(..).into_ctx() (line 62)
CtxInit ==
    /\ IS_COMPILING = FALSE
    /\ NEEDS_REBUILD = FALSE
    /\ NEW_SHADERS = <<>>
    /\ threads = <<>>
    /\ rpc = "ctx"
    /\ event = NoEvent
    /\ control_flow = "Poll"
    /\ shaders = <<>>
    /\ frame = NoFrame
    /\ \E caps \in SurfaceCaps, defined \in BOOLEAN :
          /\ window = [inner |-> Extent2D(INIT_WIDTH, INIT_HEIGHT), defined |-> defined,
                       caps |-> caps]
          /\ LET r == from_base(NoObjects, window) IN
                /\ objects = r.objects
                /\ ctx = r.ctx
                /\ signaled = {r.ctx.sync.draw_commands_reuse_fence,
                               r.ctx.sync.setup_commands_reuse_fence}
    /\ queue = <<>>
    /\ draw_cb = [state |-> "initial", content |-> <<>>]
    /\ resize_events = <<>>
    /\ resizes = 0

CtxUnchanged ==
    UNCHANGED <<hotVars, threadVars, event, control_flow, shaders, frame, signaled, queue,
                draw_cb, envVars>>

\* ctx.insert_shader_module(name, spirv) (lines 836-847)
CallInsertShaderModule ==
    /\ rpc = "ctx"
    /\ Calls < MaxCalls
    /\ \E name \in ModuleNames, spirv \in 1..2 :
          LET r == insert_shader_module(ctx.shader_modules, objects, name, spirv) IN
             /\ ctx' = [ctx EXCEPT !.shader_modules = r.shader_modules]
             /\ objects' = r.objects
    /\ rpc' = rpc
    /\ CtxUnchanged

\* the body of rebuild_pipelines on the context c: the layout is created
\* first (line 756), then a module lookup that fails panics (lines 761, 763)
RebuildCall(c) ==
    IF modules_resolve(c)
    THEN LET r == rebuild_pipelines(c, objects) IN
            /\ ctx' = [c EXCEPT !.pipelines = r.pipelines]
            /\ objects' = r.objects
            /\ rpc' = rpc
    ELSE /\ ctx' = c
         /\ objects' = Alloc(objects, "pipeline_layout", 1)
         /\ rpc' = "panicked"

\* ctx.build_pipelines(cache, shader_set) (lines 824-831)
CallBuildPipelines ==
    /\ rpc = "ctx"
    /\ Calls < MaxCalls
    /\ \E set \in ShaderSets : RebuildCall([ctx EXCEPT !.shader_set = set])
    /\ CtxUnchanged

\* ctx.rebuild_pipelines(cache) (lines 755-822)
CallRebuildPipelines ==
    /\ rpc = "ctx"
    /\ Calls < MaxCalls
    /\ RebuildCall(ctx)
    /\ CtxUnchanged

\* ctx.render() (lines 905-942) is called
CallRender ==
    /\ rpc = "ctx"
    /\ Len(queue) < MaxQueue
    /\ rpc' = "acquire"
    /\ UNCHANGED <<ctx, objects>>
    /\ CtxUnchanged

\* render has returned to the caller of the RenderCtx
RenderReturn ==
    /\ rpc = "events"
    /\ rpc' = "ctx"
    /\ UNCHANGED <<ctx, objects>>
    /\ CtxUnchanged

CtxNext ==
    \/ CallInsertShaderModule \/ CallBuildPipelines \/ CallRebuildPipelines
    \/ CallRender
    \/ Acquire \/ DrawBeginInfo \/ WaitForFences \/ ResetFences \/ ResetCommandBuffer
    \/ RecordDraw \/ QueueSubmit
    \/ QueuePresent
    \/ RenderReturn
    \/ GpuExecute

CtxSpec == CtxInit /\ [][CtxNext]_vars

\* ------------------------------------------------------------- properties
\* a step of the event-loop thread
LoopStep == rpc' # rpc

\* the event loop is in the F5 handler and the compare-and-swap is next
AtF5 == rpc = "handle" /\ event = KeyboardInput("F5")

\* the objects of the surface chain that RenderCtx holds, by kind
Owned(kind) ==
    CASE kind = "framebuffer" -> Range(ctx.framebuffers)
      [] kind = "command_buffer" -> {ctx.commands.draw_command_buffer,
                                     ctx.commands.setup_command_buffer}
      [] kind = "render_pass" -> {ctx.render_pass}
      [] kind = "image_view" -> Range(ctx.image_views)
      [] kind = "swapchain" -> {ctx.swapchain}

ChainKinds == {"framebuffer", "command_buffer", "render_pass", "image_view", "swapchain"}

\* the objects of a kind are those of the generation RenderCtx holds: none
\* destroyed, none created beside them
Intact(kind) == LiveOfKind(kind) = Owned(kind) /\ Owned(kind) # {}

Gone(kind) == LiveOfKind(kind) = {}

\* C1: at most one compile thread is active at any time, an active thread
\* implies IS_COMPILING, and an F5 handled while IS_COMPILING is true spawns
\* no thread.
C1_AtMostOneCompile ==
    /\ [](Cardinality(ActiveThreads) <= 1)
    /\ [](ActiveThreads # {} => IS_COMPILING)
    /\ [][(AtF5 /\ IS_COMPILING /\ LoopStep) => Len(threads') = Len(threads)]_vars

\* C1 witness: the reload key is handled while a compile thread is compiling
C1_Witness ==
    /\ AtF5
    /\ IS_COMPILING
    /\ \E t \in 1..Len(threads) : threads[t].pc = "compile"

\* C2 (as claimed): a compile thread whose cargo run has exited with a
\* failure status changes neither the shader module registry, nor the
\* pipeline set, nor the staged modules, and nothing else changes them while
\* it lives.
C2_FailedCompileChangesNothing ==
    [][(\E t \in 1..Len(threads) : threads[t].status # 0)
          => UNCHANGED <<ctx.shader_modules, ctx.pipelines, NEW_SHADERS>>]_vars

\* C3 (as claimed): once a compile thread has failed, IS_COMPILING and
\* NEEDS_REBUILD are both false.
C3_FailureReturnsToIdle ==
    \A t \in 1..Len(threads) :
        threads[t].pc = "panicked" => (IS_COMPILING = FALSE /\ NEEDS_REBUILD = FALSE)

\* every pipeline of the set was built from the modules now registered under
\* the names of its pair, and these modules are live
PipelinesCurrent ==
    \A i \in 1..Len(ctx.pipelines) :
        /\ i <= Len(ctx.shader_set)
        /\ ctx.shader_set[i][1].module \in DOMAIN ctx.shader_modules
        /\ ctx.shader_set[i][2].module \in DOMAIN ctx.shader_modules
        /\ ctx.pipelines[i].vertex_module = ctx.shader_modules[ctx.shader_set[i][1].module]
        /\ ctx.pipelines[i].fragment_module = ctx.shader_modules[ctx.shader_set[i][2].module]
        /\ IsLive(ctx.pipelines[i].vertex_module)
        /\ IsLive(ctx.pipelines[i].fragment_module)

\* C4: except between the drain and the rebuild of one poll, every pipeline
\* references the module handles currently registered under its names, and
\* none of them is destroyed; in particular after every rebuild.
C4_PipelinesUseRegisteredModules ==
    rpc # "rebuild_pipelines" => PipelinesCurrent

\* C4 witness: a hot reload has replaced a registered module and the
\* pipelines have been rebuilt
C4_Witness ==
    /\ rpc = "store_needs_rebuild"
    /\ \E i \in 1..Len(objects["shader_module"]) : ~objects["shader_module"][i].live
    /\ ctx.pipelines # <<>>

\* C5: in recreate_swapchain the destroy calls come in the order framebuffers,
\* command buffers, render pass, image views, swapchain, and the first create
\* call comes when nothing of the old generation is left.
C5_DestroyOrderBeforeCreate ==
    /\ rpc \in {"device_wait_idle", "destroy_framebuffers"}
          => \A k \in ChainKinds : Intact(k)
    /\ rpc = "free_command_buffers"
          => /\ Gone("framebuffer")
             /\ \A k \in ChainKinds \ {"framebuffer"} : Intact(k)
    /\ rpc = "destroy_render_pass"
          => /\ Gone("framebuffer") /\ Gone("command_buffer")
             /\ Intact("render_pass") /\ Intact("image_view") /\ Intact("swapchain")
    /\ rpc = "destroy_image_views"
          => /\ Gone("framebuffer") /\ Gone("command_buffer") /\ Gone("render_pass")
             /\ Intact("image_view") /\ Intact("swapchain")
    /\ rpc = "destroy_swapchain"
          => /\ \A k \in ChainKinds \ {"swapchain"} : Gone(k)
             /\ Intact("swapchain")
    /\ rpc = "create_swapchain" => \A k \in ChainKinds : Gone(k)

\* C5 witness: the second recreation has destroyed the old generation and is
\* about to create the new one
C5_Witness ==
    /\ rpc = "create_swapchain"
    /\ Len(objects["swapchain"]) = 2

\* C6: the draw fence is signaled when it is reset, and from the reset of the
\* command buffer to its submission the fence is unsignaled and no submission
\* of the draw command buffer is still pending on the queue.
C6_FenceBeforeReuse ==
    /\ rpc = "reset_fences" => ctx.sync.draw_commands_reuse_fence \in signaled
    /\ rpc \in {"reset_fences", "reset_command_buffer", "record", "queue_submit"}
          => ~DrawBufferPending
    /\ rpc \in {"reset_command_buffer", "record", "queue_submit"}
          => ctx.sync.draw_commands_reuse_fence \notin signaled

\* C6 witness: the command buffer that holds the previous frame's commands
\* is about to be reset
C6_Witness ==
    /\ rpc = "reset_command_buffer"
    /\ draw_cb.state = "executable"

\* the event loop is in the RedrawEventsCleared handler, at the load of IS_COMPILING
AtPoll == rpc = "handle" /\ event = RedrawEventsCleared

Registered(list) ==
    \A i \in 1..Len(list) :
        /\ list[i].name \in DOMAIN ctx.shader_modules
        /\ IsLive(ctx.shader_modules[list[i].name])
        /\ objects["shader_module"][ctx.shader_modules[list[i].name].id].code = list[i].spirv

C8_ReloadWhileCompilingDropped ==
    /\ [][(AtF5 /\ IS_COMPILING /\ LoopStep)
            => UNCHANGED <<IS_COMPILING, NEEDS_REBUILD, NEW_SHADERS, threads,
                           ctx.shader_modules, ctx.pipelines>>]_vars
    /\ [][(Len(threads') # Len(threads))
            => AtF5 /\ ~IS_COMPILING /\ Len(threads') = Len(threads) + 1]_vars

\* C8 witness: the reload key is handled while the running compile has
\* returned and is about to stage its modules
C8_Witness ==
    /\ AtF5
    /\ IS_COMPILING
    /\ \E t \in 1..Len(threads) : threads[t].pc = "store"

\* the event loop is in the Resized handler
InResize ==
    \/ rpc = "handle" /\ event.type = "Resized"
    \/ rpc \in Range(recreate_swapchain)

\* C9: no step of the Resized handler changes the pipeline set, the registry,
\* the shader set, the semaphores and fences, the command pool or the
\* hot-reload statics, nor any object of these kinds; when the handler
\* returns, the live swapchain, image views, render pass, framebuffers and
\* command buffers are exactly the new ones RenderCtx holds.
C9_ResizeKeepsPipelines ==
    /\ [][(InResize /\ LoopStep)
            => UNCHANGED <<ctx.pipelines, ctx.shader_modules, ctx.shader_set, ctx.sync,
                           ctx.commands.pool, hotVars, signaled,
                           objects["pipeline"], objects["pipeline_layout"],
                           objects["shader_module"], objects["fence"],
                           objects["semaphore"], objects["command_pool"]>>]_vars
    /\ [][(rpc = "create_framebuffers" /\ LoopStep)
            => /\ rpc' = "events"
               /\ \A k \in ChainKinds : Intact(k)']_vars

\* C9 witness: a resize has been handled while a pipeline set existed
C9_Witness ==
    /\ rpc = "events"
    /\ Len(objects["swapchain"]) >= 2
    /\ ctx.pipelines # <<>>
    /\ \A k \in ChainKinds : Intact(k)

\* C10 (as claimed): when the handler of a Resized event for (w, h) returns,
\* the image extent of the swapchain is (w, h).
C10_ExtentIsEventSize ==
    [][(rpc = "create_framebuffers" /\ LoopStep) => ctx'.image_extent = event.size]_vars

\* C10 (amended): the swapchain created by from_base and by every
\* recreate_swapchain has the size the window has at that call; the size the
\* Resized event carries is the resulting extent when the window has not
\* changed size again since the event was issued.
C10_ExtentIsSurfaceAtRecreation ==
    /\ [][(rpc \in {"from_base", "create_swapchain"} /\ LoopStep)
            => ctx'.image_extent = window.inner]_vars
    /\ [][(rpc = "create_framebuffers" /\ LoopStep /\ resize_events = <<>>)
            => ctx'.image_extent = event.size]_vars

\* C10 witness: the swapchain has been recreated at the size of a resized
\* window
C10_Witness ==
    /\ rpc = "events"
    /\ Len(objects["swapchain"]) >= 2
    /\ ctx.image_extent = Extent2D(800, 600)
    /\ window.inner = Extent2D(800, 600)

\* a call of build_pipelines or rebuild_pipelines that returns
RebuildReturns ==
    /\ Len(objects'["pipeline_layout"]) > Len(objects["pipeline_layout"])
    /\ rpc' # "panicked"

\* C11: a (re)build that returns leaves as many pipelines as the shader set
\* has pairs, the i-th with the registered module of pair i's vertex entry as
\* its vertex stage and the registered module of pair i's fragment entry as
\* its fragment stage, each with the entry point name of that entry.
C11_PipelinePerPair ==
    [][RebuildReturns
         => /\ Len(ctx'.pipelines) = Len(ctx'.shader_set)
            /\ \A i \in 1..Len(ctx'.shader_set) :
                  LET vert == ctx'.shader_set[i][1]
                      frag == ctx'.shader_set[i][2]
                      made == ctx'.pipelines[i]
                  IN  /\ made.vertex_module = ctx'.shader_modules[vert.module]
                      /\ made.vertex_name = vert.entry_point
                      /\ made.fragment_module = ctx'.shader_modules[frag.module]
                      /\ made.fragment_name = frag.entry_point]_vars

\* C11 witness: two pipelines built from two pairs that differ, the first
\* with different modules for its two stages
C11_Witness ==
    /\ rpc = "ctx"
    /\ Len(ctx.pipelines) = 2
    /\ ctx.pipelines[1].vertex_module # ctx.pipelines[1].fragment_module
    /\ ctx.pipelines[1].vertex_module # ctx.pipelines[2].vertex_module

\* a compile thread is at the assignment to NEW_SHADERS (line 104)
Writing == \E t \in 1..Len(threads) : threads[t].pc = "store"

\* the event loop is at NEW_SHADERS.drain(..) (line 87)
Draining == rpc = "drain"

\* C12: NEW_SHADERS changes only in the store step of a compile thread or in
\* the drain step of the event loop; a thread is at its store only while
\* IS_COMPILING is true; the loop is at the drain only while NEEDS_REBUILD is
\* true and IS_COMPILING is false; and the two never are at these positions
\* together.
C12_StagingBufferRaceFree ==
    /\ [][NEW_SHADERS' # NEW_SHADERS
            => \/ /\ \E t \in 1..Len(threads) :
                        threads[t].pc = "store" /\ threads'[t].pc = "set_needs_rebuild"
                  /\ rpc' = rpc
               \/ /\ Draining /\ rpc' = "rebuild_pipelines"
                  /\ threads' = threads]_vars
    /\ [](Writing => IS_COMPILING)
    /\ [](Draining => NEEDS_REBUILD /\ ~IS_COMPILING)
    /\ [](~(Writing /\ Draining))

\* C12 witness: the event loop has drained modules that a compile thread had
\* stored
C12_Witness ==
    /\ rpc = "rebuild_pipelines"
    /\ \E t \in 1..Len(threads) : threads[t].pc = "done"
    /\ NEW_SHADERS = <<>>
    /\ Len(objects["shader_module"]) >= 2

\* the handles the registry holds
RegisteredHandles == {ctx.shader_modules[n] : n \in DOMAIN ctx.shader_modules}

InFlightUses(h) ==
    \E i \in 1..Len(queue) :
        /\ queue[i].op = "submit"
        /\ \E k \in 1..Len(queue[i].content), j \in 1..Len(ctx.pipelines) :
              /\ queue[i].content[k].pipeline = ctx.pipelines[j].pipeline
              /\ h \in {ctx.pipelines[j].vertex_module, ctx.pipelines[j].fragment_module}

\* C14 (as claimed): no step destroys a shader module while a submitted frame
\* that the GPU has not finished uses a pipeline built from it.
C14_ModuleDestroyedWhenUnused ==
    [][\A h \in LiveOfKind("shader_module") :
          ~objects'[h.kind][h.id].live => ~InFlightUses(h)]_vars

\* a call of build_pipelines or rebuild_pipelines in which a pair names a
\* module that is not registered
RebuildFails ==
    /\ Len(objects'["pipeline_layout"]) > Len(objects["pipeline_layout"])
    /\ ~modules_resolve(ctx')

\* C15 (as claimed): a (re)build that fails while a pipeline set exists
\* returns to its caller with the pipeline set as it was.
C15_FailedRebuildKeepsPipelines ==
    [][(RebuildFails /\ ctx.pipelines # <<>>)
          => ctx'.pipelines = ctx.pipelines /\ rpc' # "panicked"]_vars

\* C16 (as claimed): a compile whose cargo run exited with a non-zero status
\* has failed: compile_shaders has returned no module list.
C16_NonZeroExitFails ==
    \A t \in 1..Len(threads) : threads[t].status # 0 => threads[t].pc = "panicked"

\* C17 (as claimed): compile_shaders never returns an empty module list,
\* neither to main nor to a compile thread.
C17_NeverEmptySuccess ==
    /\ rpc = "from_base" => shaders # <<>>
    /\ \A t \in 1..Len(threads) : threads[t].pc = "store" => threads[t].result.shaders # <<>>

\* C18 (as claimed): the push constants of every recorded draw hold the
\* resolution of the current swapchain.
C18_PushConstantsLive ==
    \A k \in 1..Len(draw_cb.content) :
        /\ draw_cb.content[k].push_constants.width = ctx.image_extent.width
        /\ draw_cb.content[k].push_constants.height = ctx.image_extent.height

\* the positions of the event loop inside ctx.render()
RenderPositions ==
    {"acquire", "draw", "wait_for_fences", "reset_fences", "reset_command_buffer",
     "record", "queue_submit", "queue_present"}

DoneThreads == {t \in 1..Len(threads) : threads[t].pc = "done"}

\* the step of thread t from position p to position q
ThreadMoves(t, p, q) == threads[t].pc = p /\ threads'[t].pc = q

C21_StagedConsumedOnce ==
    [][(NEW_SHADERS # <<>> /\ NEW_SHADERS' # NEW_SHADERS)
          => /\ Draining
             /\ NEW_SHADERS' = <<>>
             /\ \A i \in 1..Len(NEW_SHADERS) :
                   /\ NEW_SHADERS[i].name \in DOMAIN ctx'.shader_modules
                   /\ objects'["shader_module"][ctx'.shader_modules[NEW_SHADERS[i].name].id].code
                         = NEW_SHADERS[i].spirv]_vars

\* the state of the hot-reload protocol that the two flags encode
HotState(compiling, pending) ==
    IF compiling THEN "Compiling"
    ELSE IF pending THEN "RebuildPending" ELSE "Idle"

\* C22 (as claimed): the two flags move only along Idle -> Compiling,
\* Compiling -> RebuildPending, Compiling -> Idle and RebuildPending -> Idle,
\* and a compile thread is spawned only when NEEDS_REBUILD is false.
C22_HotReloadTransitions ==
    /\ [][HotState(IS_COMPILING, NEEDS_REBUILD) # HotState(IS_COMPILING', NEEDS_REBUILD')
            => <<HotState(IS_COMPILING, NEEDS_REBUILD),
                 HotState(IS_COMPILING', NEEDS_REBUILD')>>
                  \in {<<"Idle", "Compiling">>, <<"Compiling", "RebuildPending">>,
                       <<"Compiling", "Idle">>, <<"RebuildPending", "Idle">>}]_vars
    /\ [][Len(threads') > Len(threads) => ~NEEDS_REBUILD]_vars

\* the event loop has inserted a batch of modules and has not yet returned
\* from the pipeline (re)build that follows
AfterInsert == rpc \in {"build_pipelines", "rebuild_pipelines"}

\* every pipeline of the set was created by the step, for the current modules
PipelinesRebuilt ==
    /\ Len(ctx'.pipelines) = Len(ctx'.shader_set)
    /\ \A i \in 1..Len(ctx'.pipelines) :
          /\ ctx'.pipelines[i].pipeline.id > Len(objects["pipeline"])
          /\ ctx'.pipelines[i].vertex_module = ctx'.shader_modules[ctx'.shader_set[i][1].module]
          /\ ctx'.pipelines[i].fragment_module = ctx'.shader_modules[ctx'.shader_set[i][2].module]

\* C23: the step of the event loop after the inserts of a batch (at startup
\* and in the poll) is the pipeline (re)build, which either builds every
\* pipeline anew or panics; in the insert step and until the (re)build has
\* returned, no command buffer is recorded, nothing is submitted or presented
\* and no event is taken.
C23_InsertThenRebuild ==
    /\ [][(rpc = "insert_modules" /\ LoopStep) => rpc' = "build_pipelines"]_vars
    /\ [][(Draining /\ LoopStep) => rpc' = "rebuild_pipelines"]_vars
    /\ [][(AfterInsert /\ LoopStep)
            => \/ rpc' = "panicked"
               \/ /\ rpc' = IF rpc = "build_pipelines" THEN "events" ELSE "store_needs_rebuild"
                  /\ PipelinesRebuilt]_vars
    /\ [][(AfterInsert \/ Draining \/ rpc = "insert_modules")
            => /\ UNCHANGED <<draw_cb, event, frame>>
               /\ \E k \in 0..Len(queue) : queue' = SubSeq(queue, k + 1, Len(queue))]_vars

\* C23 witness: a hot reload has replaced a module while a frame is still on
\* the queue, and the rebuild is the next step of the event loop
C23_Witness ==
    /\ rpc = "rebuild_pipelines"
    /\ queue # <<>>
    /\ \E i \in 1..Len(objects["shader_module"]) : ~objects["shader_module"][i].live

\* the objects of the surface chain that the step destroys
DestroyedChainObjects ==
    {h \in UNION {LiveOfKind(k) : k \in ChainKinds} : ~objects'[h.kind][h.id].live}

\* the positions of recreate_swapchain after the wait and up to its return
AfterWaitIdle == {recreate_swapchain[i] : i \in 2..Len(recreate_swapchain)}

\* C24: recreate_swapchain gets past device_wait_idle only when the queue is
\* empty, the wait destroys nothing, the queue stays empty until
\* recreate_swapchain returns, and every step that destroys a framebuffer,
\* command buffer, render pass, image view or swapchain is taken with
\* nothing submitted and unfinished.
C24_IdleBeforeDestroy ==
    /\ [][(rpc = "device_wait_idle" /\ LoopStep)
            => /\ queue = <<>>
               /\ DestroyedChainObjects = {}
               /\ rpc' = "destroy_framebuffers"]_vars
    /\ [](rpc \in AfterWaitIdle => queue = <<>>)
    /\ [][DestroyedChainObjects # {} => (queue = <<>> /\ rpc \in AfterWaitIdle)]_vars

\* C24 witness: a frame was recorded and submitted, the wait has returned,
\* the framebuffers are destroyed and the command buffers are freed next
C24_Witness ==
    /\ rpc = "free_command_buffers"
    /\ draw_cb.state = "executable"
    /\ Gone("framebuffer")

\* the state of a binary semaphore after the operations of q, in queue order,
\* starting from `st`: a wait needs a signal before it and consumes it, a
\* signal needs the semaphore unsignaled; "misused" otherwise
RECURSIVE SemaphoreAfter(_, _, _)
SemaphoreAfter(sem, st, q) ==
    IF q = <<>> \/ st = "misused" THEN st
    ELSE LET op == Head(q)
             s1 == IF op.wait # sem THEN st
                   ELSE IF st = "signaled" THEN "unsignaled" ELSE "misused"
             s2 == IF op.signal # sem \/ s1 = "misused" THEN s1
                   ELSE IF s1 = "unsignaled" THEN "signaled" ELSE "misused"
         IN  SemaphoreAfter(sem, s2, Tail(q))

\* the state a semaphore will be in once the queue has been worked off
SemaphoreState(sem) ==
    SemaphoreAfter(sem, IF sem \in signaled THEN "signaled" ELSE "unsignaled", queue)

\* render has made the call it was at and has not panicked
RenderCall(at) == rpc = at /\ rpc' \notin {at, "panicked"}

\* C25 (as claimed): every wait on present_complete_semaphore and on
\* rendering_complete_semaphore is matched, in queue order, by one signal
\* before it and every signal finds the semaphore unsignaled: the
\* acquisition signals an unsignaled present_complete_semaphore, a submission
\* waits on it signaled and signals an unsignaled
\* rendering_complete_semaphore, the present waits on that one signaled;
\* whatever the number of pipelines.
C25_SemaphoreProtocol ==
    /\ [](SemaphoreState(ctx.sync.present_complete_semaphore) # "misused")
    /\ [](SemaphoreState(ctx.sync.rendering_complete_semaphore) # "misused")
    /\ [][RenderCall("acquire")
            => SemaphoreState(ctx.sync.present_complete_semaphore) = "unsignaled"]_vars
    /\ [][RenderCall("queue_submit")
            => /\ SemaphoreState(ctx.sync.present_complete_semaphore) = "signaled"
               /\ SemaphoreState(ctx.sync.rendering_complete_semaphore) = "unsignaled"]_vars
    /\ [][RenderCall("queue_present")
            => SemaphoreState(ctx.sync.rendering_complete_semaphore) = "signaled"]_vars

\* the draw fence is signaled, or a submission on the queue will signal it
FenceSignaledOrPending ==
    \/ ctx.sync.draw_commands_reuse_fence \in signaled
    \/ \E i \in 1..Len(queue) : queue[i].fence = ctx.sync.draw_commands_reuse_fence

\* the positions of record_submit_commandbuffer between the reset of the
\* fence and the submission
FenceReset == {"reset_command_buffer", "record", "queue_submit"}

\* C26: the draw fence is created signaled; after its reset the thread goes
\* straight to the submission that signals it; at every other position, also
\* during and after recreate_swapchain, the fence is signaled or a queued
\* submission signals it; and with the GPU finishing what is queued, every
\* fence wait of record_submit_commandbuffer returns.
C26_FenceWaitReturns ==
    /\ [][(rpc = "from_base" /\ LoopStep)
            => ctx'.sync.draw_commands_reuse_fence \in signaled']_vars
    /\ [][(rpc = "reset_fences" /\ LoopStep) => rpc' = "reset_command_buffer"]_vars
    /\ [][(rpc = "reset_command_buffer" /\ LoopStep) => rpc' = "record"]_vars
    /\ [][(rpc = "record" /\ LoopStep) => rpc' = "queue_submit"]_vars
    /\ [][(rpc = "queue_submit" /\ LoopStep)
            => /\ queue' # <<>>
               /\ Last(queue').fence = ctx.sync.draw_commands_reuse_fence]_vars
    /\ []((ctx.sync.draw_commands_reuse_fence # NullHandle /\ rpc \notin FenceReset)
            => FenceSignaledOrPending)
    /\ (rpc = "wait_for_fences") ~> (rpc = "reset_fences")

\* C26 witness: record_submit_commandbuffer is at its fence wait after a
\* recreate_swapchain, and the fence is not yet signaled
C26_Witness ==
    /\ rpc = "wait_for_fences"
    /\ ctx.sync.draw_commands_reuse_fence \notin signaled
    /\ Len(objects["swapchain"]) > 1

\* C27 (as claimed): the viewport and the scissor of every draw that is
\* recorded are the image extent of the swapchain at the time of recording,
\* also after a resize has been handled.
C27_ViewportIsCurrent ==
    [][(rpc = "record" /\ LoopStep)
          => \A k \in 1..Len(draw_cb'.content) :
                /\ draw_cb'.content[k].viewport = ctx.image_extent
                /\ draw_cb'.content[k].scissor = ctx.image_extent]_vars

\* C28 (as claimed): the live pipelines and pipeline layouts of the device
\* are those of the current pipeline set, after any number of rebuilds.
C28_OnlyCurrentPipelinesLive ==
    rpc # "panicked"
       => /\ LiveOfKind("pipeline") = {ctx.pipelines[i].pipeline : i \in 1..Len(ctx.pipelines)}
          /\ LiveOfKind("pipeline_layout")
                = {ctx.pipelines[i].pipeline_layout : i \in 1..Len(ctx.pipelines)}

\* the event-loop thread is in the closure of line 82
InHandler == rpc \notin {"main_compile", "from_base", "insert_modules", "build_pipelines",
                        "events", "panicked", "exited"}

\* C29: inside the closure the event-loop thread can always take its next
\* step, except at wait_for_fences and device_wait_idle, where it waits for
\* the GPU alone; the F5 handler returns in one step whatever the flag; a
\* RedrawEventsCleared that loads IS_COMPILING = true goes straight to
\* render without loading anything else, otherwise it loads NEEDS_REBUILD
\* once; and render changes neither the registry nor the pipeline set.
C29_RenderNeverWaitsForCompile ==
    /\ []((InHandler /\ rpc \notin {"wait_for_fences", "device_wait_idle"})
            => ENABLED LoopRun)
    /\ [](rpc = "wait_for_fences"
            => (ENABLED LoopRun <=> ctx.sync.draw_commands_reuse_fence \in signaled))
    /\ [](rpc = "device_wait_idle" => (ENABLED LoopRun <=> queue = <<>>))
    /\ [][(AtF5 /\ LoopStep) => rpc' = "events"]_vars
    /\ [][(AtPoll /\ LoopStep)
            => rpc' = IF IS_COMPILING THEN "acquire" ELSE "load_needs_rebuild"]_vars
    /\ [][(rpc = "load_needs_rebuild" /\ LoopStep) => rpc' \in {"drain", "acquire"}]_vars
    /\ [][(rpc \in RenderPositions)
            => UNCHANGED <<ctx.shader_modules, ctx.pipelines>>]_vars

\* C29 witness: a frame is about to be presented while a compile thread is
\* still compiling
C29_Witness ==
    /\ rpc = "queue_present"
    /\ IS_COMPILING
    /\ \E t \in 1..Len(threads) : threads[t].pc = "compile"

\* the event loop has ended or is about to: a panic, or ControlFlow::Exit
LoopOver == rpc \in {"panicked", "exited"} \/ control_flow = "Exit"

\* winit has called the closure with an event other than RedrawEventsCleared
OutsideEvent == rpc = "handle" /\ event # RedrawEventsCleared

\* C30 (as claimed): while a compile thread runs, the loop presents another
\* frame, and once a compile has succeeded (NEEDS_REBUILD true, IS_COMPILING
\* false) NEEDS_REBUILD becomes false again; both without waiting for a
\* further event of the window system, unless the loop ends.
C30_ReloadEventuallyApplied ==
    /\ (ActiveThreads # {} /\ rpc = "events")
          ~> (rpc = "queue_present" \/ ActiveThreads = {} \/ LoopOver \/ OutsideEvent)
    /\ (NEEDS_REBUILD /\ ~IS_COMPILING /\ rpc = "events")
          ~> (~NEEDS_REBUILD \/ LoopOver \/ OutsideEvent)

\* the event loop is in the hot-reload branch of the poll (lines 85-93)
InReload == rpc \in {"drain", "rebuild_pipelines", "store_needs_rebuild"}

\* a context that has the registry and the shader set of c and nothing else,
\* on a device that has only the shader modules, layouts and pipelines of objs
ReloadPart(c, objs) ==
    [ctx |-> [NoCtx EXCEPT !.shader_modules = c.shader_modules, !.shader_set = c.shader_set],
     objects |-> [k \in Kinds |->
                     IF k \in {"shader_module", "pipeline_layout", "pipeline"}
                     THEN objs[k] ELSE <<>>]]

MaxCount == 3

\* VkSurfaceCapabilitiesKHR: minImageCount is at least 1; maxImageCount is 0
\* (no limit) or at least minImageCount
AllSurfaceCaps ==
    {c \in [min_image_count : 1..MaxCount, max_image_count : 0..MaxCount] :
        c.max_image_count = 0 \/ c.max_image_count >= c.min_image_count}

\* one call of compile_shaders: where it is, its local cargo_out, its result
CompileCall(pc, cargo_out, result) ==
    [pc |-> pc, cargo_out |-> cargo_out, result |-> result, status |-> cargo_out.status]

UnitInit ==
    /\ IS_COMPILING = FALSE
    /\ NEEDS_REBUILD = FALSE
    /\ NEW_SHADERS = <<>>
    /\ threads = <<>>
    /\ rpc = "from_base"
    /\ event = NoEvent
    /\ control_flow = "Poll"
    /\ shaders = <<>>
    /\ frame = NoFrame
    /\ ctx = NoCtx
    /\ objects = NoObjects
    /\ signaled = {}
    /\ queue = <<>>
    /\ draw_cb = [state |-> "initial", content |-> <<>>]
    /\ \E caps \in AllSurfaceCaps, defined \in BOOLEAN :
          window = [inner |-> Extent2D(INIT_WIDTH, INIT_HEIGHT), defined |-> defined,
                    caps |-> caps]
    /\ resize_events = <<>>
    /\ resizes = 0

\* lines 134-146: cargo runs and its output is captured
CargoRun ==
    /\ threads = <<>>
    /\ \E out \in BuildOutputs(1) : threads' = <<CompileCall("parse", out, Panicked)>>
    /\ UNCHANGED <<hotVars, loopVars, ctx, gpuVars, envVars>>

\* lines 149-178: the artifacts are selected and loaded, or the call panics
ParseArtifacts ==
    /\ threads # <<>>
    /\ threads[1].pc = "parse"
    /\ LET r == compile_shaders(threads[1].cargo_out) IN
          threads' = <<CompileCall(IF r.ok THEN "returned" ELSE "panicked",
                                   threads[1].cargo_out, r)>>
    /\ UNCHANGED <<hotVars, loopVars, ctx, gpuVars, envVars>>

UnitNext == CargoRun \/ ParseArtifacts \/ MainFromBase

UnitSpec == UnitInit /\ [][UnitNext]_vars

\* C32: when compile_shaders returns, its result lists, in the order of the
\* file list of the last artifact record of the output, one module per file
\* of that record whose name ends with ".spv", named by the base name less
\* that extension; the output cut down to that one record gives the same
\* result, so earlier records and unparseable lines contribute nothing.
C32_LastArtifactSelected ==
    \A t \in DOMAIN threads :
        threads[t].pc = "returned" =>
            LET out    == threads[t].cargo_out
                res    == threads[t].result.shaders
                events == {i \in DOMAIN out.stdout :
                              out.stdout[i].parsed /\ out.stdout[i].reason = "compiler-artifact"}
                last   == CHOOSE i \in events : \A j \in events : j <= i
                files  == out.stdout[last].filenames.list
                spv   == {j \in DOMAIN files :
                             Len(files[j].parts) >= 2 /\ Last(files[j].parts) = "spv"}
            IN  /\ events # {}
                /\ Len(res) = Cardinality(spv)
                /\ \E f \in [DOMAIN res -> spv] :
                      /\ \A k, l \in DOMAIN res : k < l => f[k] < f[l]
                      /\ \A k \in DOMAIN res :
                            /\ res[k].name \o ".spv" = Join(files[f[k]].parts)
                            /\ res[k].spirv = out.version
                /\ threads[t].result
                      = compile_shaders([out EXCEPT !.stdout = <<out.stdout[last]>>])

\* a build whose two artifact records list different files, the last one a
\* shader among files that are none
C32_Witness ==
    /\ threads # <<>>
    /\ threads[1].pc = "returned"
    /\ Len(threads[1].cargo_out.stdout) = 2
    /\ \A i \in 1..2 : threads[1].cargo_out.stdout[i].reason = "compiler-artifact"
    /\ Len(threads[1].cargo_out.stdout[1].filenames.list) = 1
    /\ Len(threads[1].cargo_out.stdout[2].filenames.list) = 3
    /\ threads[1].result.shaders = <<SpirvShader("aux_shader", 1)>>

\* C33 as stated: the requested image count (the context holds one view per
\* image of its swapchain) lies between the minimum and the
\* maximum the surface reports, whatever the two are, a maximum of 0 included.
C33_CountWithinMinMax ==
    ctx.swapchain # NullHandle =>
        /\ Len(ctx.image_views) >= window.caps.min_image_count
        /\ Len(ctx.image_views) <= window.caps.max_image_count

\* C33: the requested image count is min+1, lowered to the maximum when the
\* surface reports one (a maximum above 0) that min+1 exceeds: it is never
\* below the minimum, never above a maximum other than 0, and min+1 when the
\* maximum is 0.
C33_ImageCount ==
    ctx.swapchain # NullHandle =>
        LET lo == window.caps.min_image_count
            hi == window.caps.max_image_count
        IN  /\ Len(ctx.image_views) >= lo
            /\ hi > 0 => Len(ctx.image_views) <= hi
            /\ hi > 0 /\ lo + 1 > hi => Len(ctx.image_views) = hi
            /\ hi = 0 \/ lo + 1 <= hi => Len(ctx.image_views) = lo + 1

\* a surface without a limit: more images are requested than its maximum, 0
C33_Witness ==
    /\ ctx.swapchain # NullHandle
    /\ window.caps.max_image_count = 0
    /\ window.caps.min_image_count = MaxCount
    /\ Len(ctx.image_views) = MaxCount + 1

\* ------------------------------------------------------------- teardown
\* The closure owns ctx.  When event_loop.run is over (ControlFlow::Exit) or
\* a panic unwinds the event-loop thread, the closure is dropped and with it
\* ctx: Drop for RenderCtx runs, then its field base is dropped (Drop for
\* RenderBase).  A panic before line 62 finds no ctx to drop.

\* lines 878-902: a create call of recreate_swapchain returns an error and
\* the unwrap on it panics (lines 466, 496, 561, 894, 523)
CreateFails ==
    /\ rpc \in {"create_swapchain", "create_image_views", "create_render_pass",
                "allocate_command_buffers", "create_framebuffers"}
    /\ rpc' = "panicked"
    /\ UNCHANGED <<hotVars, threadVars, event, control_flow, shaders, frame, ctx,
                   gpuVars, envVars>>

\* the closure is being dropped and ctx with it
Unwinding == rpc \in {"panicked", "exited"} /\ ctx # NoCtx

\* the GPU goes on with what was submitted while the thread leaves the loop
GpuFinish ==
    /\ Unwinding
    /\ queue # <<>>
    /\ LET r == RunPresents(Execute(signaled, Head(queue)), Tail(queue)) IN
          signaled' = r.signaled /\ queue' = r.queue
    /\ UNCHANGED <<hotVars, threadVars, loopVars, ctx, objects, draw_cb, envVars>>

\* lines 1065-1086: the handles Drop for RenderCtx passes to a destroy call
DropRenderCtxCalls(c) ==
    {c.sync.present_complete_semaphore, c.sync.rendering_complete_semaphore,
     c.sync.draw_commands_reuse_fence, c.sync.setup_commands_reuse_fence,
     c.commands.pool, c.swapchain}
    \cup Range(c.image_views)

\* Drop for RenderCtx (lines 1061-1088): device_wait_idle, then the destroy
\* calls; destroying the command pool frees the command buffers allocated
\* from it
DropRenderCtx ==
    /\ Unwinding
    /\ queue = <<>>
    /\ objects' = Destroy(objects, DropRenderCtxCalls(ctx) \cup LiveOfKind("command_buffer"))
    /\ rpc' = "drop_base"
    /\ UNCHANGED <<hotVars, threadVars, event, control_flow, shaders, frame, ctx,
                   signaled, queue, draw_cb, envVars>>

\* Drop for RenderBase (lines 574-587): destroy_device comes first
DropRenderBase ==
    /\ rpc = "drop_base"
    /\ rpc' = "device_destroyed"
    /\ UNCHANGED <<hotVars, threadVars, event, control_flow, shaders, frame, ctx,
                   gpuVars, envVars>>

TeardownNext == Next \/ CreateFails \/ GpuFinish \/ DropRenderCtx \/ DropRenderBase

TeardownSpec == Init /\ [][TeardownNext]_vars

\* C34: when the device is destroyed, no object created on it is still
\* live: the drop of the context has destroyed every framebuffer, render
\* pass, image view, swapchain, command pool and buffer, fence, semaphore,
\* pipeline, pipeline layout and shader module that was not destroyed before.
C34_NothingLeftLive ==
    rpc = "device_destroyed" => \A k \in Kinds : LiveOfKind(k) = {}

\* the handles the call at the current position passes to the device
GpuCallHandles ==
    CASE rpc = "destroy_framebuffers" -> Range(ctx.framebuffers)
      [] rpc = "free_command_buffers" ->
            {ctx.commands.pool, ctx.commands.draw_command_buffer,
             ctx.commands.setup_command_buffer}
      [] rpc = "destroy_render_pass" -> {ctx.render_pass}
      [] rpc = "destroy_image_views" -> Range(ctx.image_views)
      [] rpc = "destroy_swapchain" -> {ctx.swapchain}
      [] rpc = "create_image_views" -> {ctx.swapchain}
      [] rpc = "allocate_command_buffers" -> {ctx.commands.pool}
      [] rpc = "create_framebuffers" -> Range(ctx.image_views) \cup {ctx.render_pass}
      [] rpc = "rebuild_pipelines" ->
            {ctx.render_pass}
            \cup {ctx.shader_modules[n] :
                    n \in {ctx.shader_set[i][j].module : i \in DOMAIN ctx.shader_set, j \in 1..2}
                          \cap DOMAIN ctx.shader_modules}
      [] rpc = "acquire" -> {ctx.swapchain, ctx.sync.present_complete_semaphore}
      [] rpc \in {"wait_for_fences", "reset_fences"} -> {ctx.sync.draw_commands_reuse_fence}
      [] rpc = "reset_command_buffer" -> {ctx.commands.draw_command_buffer}
      [] rpc = "record" ->
            {ctx.commands.draw_command_buffer, ctx.render_pass,
             ctx.framebuffers[frame.present_index + 1],
             ctx.pipelines[frame.draw_i].pipeline,
             ctx.pipelines[frame.draw_i].pipeline_layout}
      [] rpc = "queue_submit" ->
            {ctx.commands.draw_command_buffer, ctx.sync.draw_commands_reuse_fence,
             ctx.sync.present_complete_semaphore, ctx.sync.rendering_complete_semaphore}
      [] rpc = "queue_present" -> {ctx.swapchain, ctx.sync.rendering_complete_semaphore}
      [] Unwinding -> DropRenderCtxCalls(ctx)
      [] OTHER -> {}

\* C35: every handle a call passes to the device names a live object, so
\* none is destroyed a second time or used after its destruction, also in
\* the drop of the context that follows a failed create call of
\* recreate_swapchain.
C35_HandlesLiveWhenPassed ==
    [][LoopStep => \A h \in GpuCallHandles : IsLive(h)]_vars

\* C36: whenever a draw is recorded, the render area it begins the render
\* pass with, the extent the framebuffers were created with and the image
\* extent of the swapchain are the same, and the two extents of the chain
\* agree whenever recreate_swapchain is not under way.
C36_ExtentsAgree ==
    /\ rpc = "record" =>
          /\ frame.render_area = ctx.framebuffer_extent
          /\ ctx.framebuffer_extent = ctx.image_extent
    /\ (ctx # NoCtx /\ rpc \notin Range(recreate_swapchain)) =>
          ctx.framebuffer_extent = ctx.image_extent

====
